---- MODULE Spec2Model ----
(***************************************************************************)
(* Gateway connection manager (electron/gateway/manager.ts).               *)
(*                                                                         *)
(* The manager runs on one JavaScript event loop.  Every action below is   *)
(* one event-loop task: a public method invoked by a caller, a timer       *)
(* callback, a socket or child-process event, or the continuation of an    *)
(* awaited promise.  Continuations of settled promises are microtasks and  *)
(* run before the next task (see MicrotaskPending).                        *)
(***************************************************************************)
EXTENDS Integers, FiniteSets, Sequences, TLC

VARIABLES
  process,              \* this.process: 0 (null) or a child id
  ownsProcess,          \* this.ownsProcess
  ws,                   \* this.ws: 0 (null) or a socket id
  status,               \* this.status
  reconnectTimer,       \* this.reconnectTimer: 0 (null) or the delay it was armed with
  pingInterval,         \* this.pingInterval armed
  healthCheckInterval,  \* this.healthCheckInterval armed
  reconnectAttempts,    \* this.reconnectAttempts
  reconnectConfig,      \* this.reconnectConfig
  shouldReconnect,      \* this.shouldReconnect
  startLock,            \* this.startLock
  pendingRequests,      \* keys of this.pendingRequests
  sockets,              \* every WebSocket created by connect(), with its closure variables
  procs,                \* every child spawned by startProcess()
  calls,                \* the promise of every rpc() invocation
  rpcTimers,            \* armed per-call timeouts
  flows,                \* in-flight start() / reconnect pipelines
  restartDelay,         \* restart() invocations sleeping between stop() and start()
  ep,                   \* history: start() invocations, spawns and connects of the current start episode
  observed,             \* history: what the handler that ran last emitted, cleared or returned
  limits                \* exploration limits of the run

vars == << process, ownsProcess, ws, status, reconnectTimer, pingInterval,
           healthCheckInterval, reconnectAttempts, reconnectConfig, shouldReconnect,
           startLock, pendingRequests, sockets, procs, calls, rpcTimers,
           flows, restartDelay, ep, observed, limits >>

(***************************************************************************)
(* Bounds of the exploration.                                              *)
(***************************************************************************)
MaxSockets == 1      \* sockets alive at once
MaxProcs == 1        \* children alive at once
MaxCalls == 2        \* rpc() promises outstanding at once
MaxStarts == 2       \* start() pipelines the run lets past the start-lock at once
MaxReconnects == 1   \* reconnect pipelines in flight at once
MaxRestarts == 1     \* restart() invocations in flight at once
WaitRetries == 1     \* waitForReady(retries)
MaxAttempts == 1     \* reconnectConfig.maxAttempts of the instance
RaceSockets == 2     \* sockets alive at once where two pipelines race
RaceCalls == 0       \* rpc() promises outstanding at once where two pipelines race
StopCalls == 1       \* rpc() promises outstanding at once where only stop() makes requests
BackoffAttempts == 6 \* reconnectConfig.maxAttempts where the whole backoff table is walked
FrameCalls == 1      \* rpc() promises outstanding at once where every response frame is tried
ReadyRetries == 2    \* waitForReady(retries) where the wait has a second iteration

\* DEFAULT_RECONNECT_CONFIG
DefaultBaseDelay == 1000
DefaultMaxDelay == 30000

Undefined == -1

States == {"stopped", "starting", "running", "error", "reconnecting"}

Min(a, b) == IF a <= b THEN a ELSE b

\* { ...a, ...b }
Merge(a, b) == [k \in DOMAIN a |-> IF k \in DOMAIN b THEN b[k] ELSE a[k]]

RpcId(n) == << "rpc", n >>
ConnectId(s) == << "connect", s >>

\* sentOn: the socket the handshake request frame went out on (0: not sent)
NoSocket == [rs |-> "none", handshakeComplete |-> FALSE, connectId |-> FALSE,
             handshakeTimeout |-> FALSE, settled |-> FALSE, result |-> "pending",
             sentOn |-> 0]
NoProc == [st |-> "none", sigterm |-> FALSE, sigkill |-> FALSE, killTimer |-> FALSE]
\* sock: the socket the request frame went out on (0: not sent, or that socket has closed)
\* returned: the caller's continuation has run with the call's outcome
\* value: what the promise was settled with (<< >>: not settled)
NoCall == [method |-> "none", outcome |-> "unused", settles |-> 0, cont |-> "none",
           sock |-> 0, returned |-> FALSE, value |-> << >>]
\* child: the child this pipeline's spawn launched (0: none, or the spawn failed)
NoFlow == [kind |-> "none", pc |-> "idle", sock |-> 0, tries |-> 0, existing |-> FALSE,
           child |-> 0]

\* cancelled: the last stop() cleared a pending reconnect timer
NoEpisode == [calls |-> 0, spawns |-> 0, connects |-> 0, cancelled |-> FALSE]

\* The whole state as one record, so that a handler's statements compose.
World == [process |-> process, ownsProcess |-> ownsProcess, ws |-> ws, status |-> status,
          reconnectTimer |-> reconnectTimer, pingInterval |-> pingInterval,
          healthCheckInterval |-> healthCheckInterval,
          reconnectAttempts |-> reconnectAttempts, reconnectConfig |-> reconnectConfig,
          shouldReconnect |-> shouldReconnect, startLock |-> startLock,
          pendingRequests |-> pendingRequests, sockets |-> sockets, procs |-> procs,
          calls |-> calls, rpcTimers |-> rpcTimers, flows |-> flows,
          restartDelay |-> restartDelay, ep |-> ep, observed |-> << >>, limits |-> limits]

\* A closed socket nobody awaits and an exited child nobody refers to can no
\* longer act or be acted upon: their slots are free again.
SocketDead(w, s) ==
  /\ w.sockets[s].rs = "closed"
  /\ ~w.sockets[s].handshakeTimeout
  /\ ConnectId(s) \notin w.pendingRequests
  /\ \A f \in DOMAIN w.flows : ~(w.flows[f].pc = "handshake" /\ w.flows[f].sock = s)

ProcDead(w, p) ==
  /\ w.procs[p].st \in {"exited", "spawnerr"}
  /\ ~w.procs[p].killTimer
  /\ w.process # p

\* a call whose caller has seen the settlement and whose frame can no longer be answered
CallDead(w, n) ==
  /\ w.calls[n].returned
  /\ n \notin w.rpcTimers
  /\ RpcId(n) \notin w.pendingRequests
  /\ w.calls[n].sock = 0 \/ w.sockets[w.calls[n].sock].rs = "closed"

ClosedSocket == [rs |-> "closed", handshakeComplete |-> FALSE, connectId |-> FALSE,
                 handshakeTimeout |-> FALSE, settled |-> TRUE, result |-> "rejected",
                 sentOn |-> 0]

Collect(w) ==
  [w EXCEPT
     !.sockets = [s \in DOMAIN w.sockets |->
                    IF SocketDead(w, s)
                      THEN IF w.ws = s THEN ClosedSocket
                           ELSE NoSocket
                    ELSE IF w.sockets[s].sentOn # 0 /\ w.sockets[w.sockets[s].sentOn].rs = "closed"
                      THEN [w.sockets[s] EXCEPT !.sentOn = 0]
                    ELSE w.sockets[s]],
     !.procs = [p \in DOMAIN w.procs |->
                  IF ProcDead(w, p)
                    THEN NoProc
                    ELSE w.procs[p]],
     !.calls = [n \in DOMAIN w.calls |->
                  IF CallDead(w, n) THEN NoCall
                  ELSE IF w.calls[n].sock # 0 /\ w.sockets[w.calls[n].sock].rs = "closed"
                    THEN [w.calls[n] EXCEPT !.sock = 0]
                  ELSE w.calls[n]]]

\* the step to the state a handler returns
Apply(v) ==
  \E w \in {Collect(v)} :
  /\ process' = w.process
  /\ ownsProcess' = w.ownsProcess
  /\ ws' = w.ws
  /\ status' = w.status
  /\ reconnectTimer' = w.reconnectTimer
  /\ pingInterval' = w.pingInterval
  /\ healthCheckInterval' = w.healthCheckInterval
  /\ reconnectAttempts' = w.reconnectAttempts
  /\ reconnectConfig' = w.reconnectConfig
  /\ shouldReconnect' = w.shouldReconnect
  /\ startLock' = w.startLock
  /\ pendingRequests' = w.pendingRequests
  /\ sockets' = w.sockets
  /\ procs' = w.procs
  /\ calls' = w.calls
  /\ rpcTimers' = w.rpcTimers
  /\ flows' = w.flows
  /\ restartDelay' = w.restartDelay
  /\ ep' = w.ep
  /\ observed' = w.observed
  /\ limits' = w.limits

InitWith(cfg, lim) ==
  /\ process = 0
  /\ ownsProcess = FALSE
  /\ ws = 0
  /\ status = [state |-> "stopped", pid |-> Undefined, error |-> "none",
               connectedAt |-> Undefined, reconnectAttempts |-> Undefined]
  /\ reconnectTimer = 0
  /\ pingInterval = FALSE
  /\ healthCheckInterval = FALSE
  /\ reconnectAttempts = 0
  /\ reconnectConfig = cfg
  /\ shouldReconnect = TRUE
  /\ startLock = FALSE
  /\ pendingRequests = {}
  /\ sockets = [s \in 1..lim.sockets |-> NoSocket]
  /\ procs = [p \in 1..lim.procs |-> NoProc]
  /\ calls = [n \in 1..lim.calls |-> NoCall]
  /\ rpcTimers = {}
  /\ flows = [f \in 1..(lim.starts + lim.reconnects) |-> NoFlow]
  /\ restartDelay = 0
  /\ ep = NoEpisode
  /\ observed = << >>
  /\ limits = lim

DefaultConfig(maxAttempts) ==
  [maxAttempts |-> maxAttempts, baseDelay |-> DefaultBaseDelay, maxDelay |-> DefaultMaxDelay]

\* JavaScript values of the fields of a response frame
JsOk == {"true", "false", "undefined"}
JsError == {"undefined", "null", "{message}", "{code}", "'text'"}
JsPayload == {"undefined", "null", "0", "{data}"}

Falsy == {"undefined", "null", "false", "0", "''"}
Truthy(v) == v \notin Falsy
Nullish(v) == v \in {"undefined", "null"}

\* { type: 'res', id, ok, error, payload }: every combination, and the two the protocol documents
ResponseFrames == [ok : JsOk, error : JsError, payload : JsPayload]
PlainFrames == {[ok |-> "true", error |-> "undefined", payload |-> "{data}"],
                [ok |-> "false", error |-> "{message}", payload |-> "undefined"]}

\* { type: 'event', event, payload }: the names the switch knows and two it does not
EventNames == {"tick", "chat", "channel.status", "agent", "notification"}
EventFrames == [event : EventNames, payload : JsPayload]

Limits ==
  [sockets |-> MaxSockets, procs |-> MaxProcs, calls |-> MaxCalls,
   starts |-> MaxStarts, reconnects |-> MaxReconnects,
   restarts |-> MaxRestarts, retries |-> WaitRetries, observe |-> FALSE,
   frames |-> PlainFrames]

Init == InitWith(DefaultConfig(MaxAttempts), Limits)

\* the only requests are stop()'s
InitOneCall == InitWith(DefaultConfig(MaxAttempts), [Limits EXCEPT !.calls = StopCalls])

\* two sockets can be alive at once
InitRace ==
  InitWith(DefaultConfig(MaxAttempts), [Limits EXCEPT !.sockets = RaceSockets, !.calls = RaceCalls])

\* the pipelines with the child they launch, the emitter observed
InitOwned ==
  InitWith(DefaultConfig(MaxAttempts), [Limits EXCEPT !.calls = RaceCalls, !.observe = TRUE])

\* two sockets can be alive at once, the emitter observed
InitHealth ==
  InitWith(DefaultConfig(MaxAttempts),
           [Limits EXCEPT !.sockets = RaceSockets, !.calls = RaceCalls, !.observe = TRUE])

\* the Gateway answers with any response frame
InitFrames ==
  InitWith(DefaultConfig(MaxAttempts),
           [Limits EXCEPT !.calls = FrameCalls, !.frames = ResponseFrames])

\* the Gateway pushes event frames, the emitter observed
InitEvents ==
  InitWith(DefaultConfig(MaxAttempts), [Limits EXCEPT !.calls = FrameCalls, !.observe = TRUE])

\* waitForReady() polls more than once
InitReady ==
  InitWith(DefaultConfig(MaxAttempts),
           [Limits EXCEPT !.calls = RaceCalls, !.retries = ReadyRetries])

\* an instance that gives up only after the backoff has reached its ceiling
InitBackoff == InitWith(DefaultConfig(BackoffAttempts), [Limits EXCEPT !.calls = StopCalls])

(***************************************************************************)
(* Manager helpers: each takes the state and returns the state after the   *)
(* statements of the method it models.                                     *)
(***************************************************************************)

\* the handler does something the run observes: recorded with the status at that point
Observe(w, what) ==
  IF w.limits.observe
    THEN [w EXCEPT !.observed = Append(@, [event |-> what, state |-> w.status.state,
                                           reconnectAttempts |-> w.status.reconnectAttempts])]
    ELSE w

\* this.emit(event, ...)
Emit(w, event) == Observe(w, event)

\* this.emit(event, args): recorded with the argument the subscribers receive
EmitArgs(w, event, args) ==
  IF w.limits.observe
    THEN [w EXCEPT !.observed = Append(@, [event |-> event, args |-> args])]
    ELSE w

\* setStatus(update): this.status = { ...this.status, ...update }; this.emit('status', this.status)
SetStatus(w, update) == Emit([w EXCEPT !.status = Merge(w.status, update)], "status")

\* variant: the delay without the maxDelay ceiling
BackoffDelayUnclipped(cfg, attempts) == cfg.baseDelay * (2 ^ attempts)

\* delay = Math.min(baseDelay * 2^reconnectAttempts, maxDelay)
BackoffDelay(cfg, attempts) == Min(cfg.baseDelay * (2 ^ attempts), cfg.maxDelay)

\* variant: scheduleReconnect() that publishes 'reconnecting' and arms no timer
ScheduleReconnectNoTimer(w) ==
  IF ~w.shouldReconnect THEN w
  ELSE IF w.reconnectTimer # 0 THEN w
  ELSE IF w.reconnectAttempts >= w.reconnectConfig.maxAttempts
    THEN SetStatus(w, [state |-> "error", error |-> "max-attempts",
                       reconnectAttempts |-> w.reconnectAttempts])
  ELSE LET w1 == [w EXCEPT !.reconnectAttempts = @ + 1]
       IN SetStatus(w1, [state |-> "reconnecting",
                         reconnectAttempts |-> w1.reconnectAttempts])

\* scheduleReconnect(), up to and including setTimeout
ScheduleReconnect(w) ==
  IF ~w.shouldReconnect THEN w
  ELSE IF w.reconnectTimer # 0 THEN w
  ELSE IF w.reconnectAttempts >= w.reconnectConfig.maxAttempts
    THEN SetStatus(w, [state |-> "error", error |-> "max-attempts",
                       reconnectAttempts |-> w.reconnectAttempts])
  ELSE LET delay == BackoffDelay(w.reconnectConfig, w.reconnectAttempts)
           w1 == [w EXCEPT !.reconnectAttempts = @ + 1]
           w2 == SetStatus(w1, [state |-> "reconnecting",
                                reconnectAttempts |-> w1.reconnectAttempts])
       IN [w2 EXCEPT !.reconnectTimer = delay]

\* variant: clearAllTimers() that leaves the reconnect timer armed
ClearAllTimersKeepsReconnect(w) ==
  [w EXCEPT !.pingInterval = FALSE, !.healthCheckInterval = FALSE]

\* clearAllTimers()
ClearAllTimers(w) ==
  [w EXCEPT !.reconnectTimer = 0, !.pingInterval = FALSE, !.healthCheckInterval = FALSE]

\* startPing() / startHealthCheck(): (re)arm the interval
StartPing(w) == [w EXCEPT !.pingInterval = TRUE]
StartHealthCheck(w) == [w EXCEPT !.healthCheckInterval = TRUE]

\* settlement of the promise returned by rpc(): the first settlement decides
SettleCall(w, n, how, value) ==
  [w EXCEPT !.calls[n].settles = @ + 1,
            !.calls[n].outcome = IF w.calls[n].settles = 0 THEN how ELSE @,
            !.calls[n].value = IF w.calls[n].settles = 0 THEN value ELSE @]

\* WebSocket.close(): CONNECTING and OPEN sockets start closing
CloseSocket(w, s) ==
  IF s # 0 /\ w.sockets[s].rs \in {"connecting", "open"}
    THEN [w EXCEPT !.sockets[s].rs = "closing"]
    ELSE w

\* connect(): cleanupHandshakeRequest of socket s
CleanupHandshakeRequest(w, s) ==
  LET w1 == [w EXCEPT !.sockets[s].handshakeTimeout = FALSE]
  IN IF w.sockets[s].connectId /\ ConnectId(s) \in w.pendingRequests
       THEN [w1 EXCEPT !.pendingRequests = @ \ {ConnectId(s)}]
       ELSE w1

\* connect(): resolveOnce of socket s
ResolveOnce(w, s) ==
  IF w.sockets[s].settled THEN w
  ELSE [CleanupHandshakeRequest([w EXCEPT !.sockets[s].settled = TRUE], s)
          EXCEPT !.sockets[s].result = "resolved"]

\* connect(): rejectOnce of socket s
RejectOnce(w, s) ==
  IF w.sockets[s].settled THEN w
  ELSE [CleanupHandshakeRequest([w EXCEPT !.sockets[s].settled = TRUE], s)
          EXCEPT !.sockets[s].result = "rejected"]

\* connect(): the resolve callback stored for the handshake request of socket s
HandshakeResolve(w, s) ==
  LET w1 == [w EXCEPT !.sockets[s].handshakeComplete = TRUE]
      w2 == SetStatus(w1, [state |-> "running", connectedAt |-> 1])
  IN ResolveOnce(StartPing(w2), s)

\* connect(): the reject callback stored for the handshake request of socket s
HandshakeReject(w, s) == RejectOnce(w, s)

\* the resolve / reject stored under a pending id
RequestResolve(w, id, value) ==
  IF id[1] = "rpc" THEN SettleCall(w, id[2], "resolved", value) ELSE HandshakeResolve(w, id[2])

RequestReject(w, id, how, value) ==
  IF id[1] = "rpc" THEN SettleCall(w, id[2], how, value) ELSE HandshakeReject(w, id[2])

\* handleMessage(): `msg.ok === false || msg.error`
Rejects(frame) == frame.ok = "false" \/ Truthy(frame.error)

\* handleMessage(): errorObj?.message || JSON.stringify(msg.error) || 'Unknown error'
ErrorMsg(frame) ==
  IF frame.error = "{message}" THEN << "Error", "error.message" >>
  ELSE IF frame.error = "undefined" THEN << "Error", "Unknown error" >>
  ELSE << "Error", "JSON.stringify", frame.error >>

\* variant: the value resolved with is msg.payload, whatever it is
PayloadOnly(frame) == << "payload", frame.payload >>

\* handleMessage(): msg.payload ?? msg
PayloadOrFrame(frame) ==
  IF Nullish(frame.payload) THEN << "frame", frame.ok, frame.error, frame.payload >>
  ELSE << "payload", frame.payload >>

\* clearTimeout(request.timeout)
ClearRequestTimeout(w, id) ==
  IF id[1] = "rpc" THEN [w EXCEPT !.rpcTimers = @ \ {id[2]}]
  ELSE [w EXCEPT !.sockets[id[2]].handshakeTimeout = FALSE]

\* variant: handleMessage() without clearTimeout(request.timeout)
HandleResponseKeepsTimeout(w, id, frame) ==
  IF id \in w.pendingRequests
    THEN LET w2 == [w EXCEPT !.pendingRequests = @ \ {id}]
         IN IF Rejects(frame) THEN RequestReject(w2, id, "remote", ErrorMsg(frame))
            ELSE RequestResolve(w2, id, PayloadOrFrame(frame))
    ELSE w

\* variant: handleMessage() without pendingRequests.delete(msg.id)
HandleResponseKeepsEntry(w, id, frame) ==
  IF id \in w.pendingRequests
    THEN LET w1 == ClearRequestTimeout(w, id)
         IN IF Rejects(frame) THEN RequestReject(w1, id, "remote", ErrorMsg(frame))
            ELSE RequestResolve(w1, id, PayloadOrFrame(frame))
    ELSE w

\* handleMessage() for the frame { type: 'res', id, ok, error, payload }
HandleResponse(w, id, frame) ==
  IF id \in w.pendingRequests
    THEN LET w1 == ClearRequestTimeout(w, id)
             w2 == [w1 EXCEPT !.pendingRequests = @ \ {id}]
         IN IF Rejects(frame) THEN RequestReject(w2, id, "remote", ErrorMsg(frame))
            ELSE RequestResolve(w2, id, PayloadOrFrame(frame))
    ELSE w

(***************************************************************************)
(* Pipelines: start() and the reconnect timer callback run the same        *)
(* probe -> spawn -> wait -> connect -> handshake steps.                   *)
(***************************************************************************)

FreeFlows(w) == {f \in DOMAIN w.flows : w.flows[f].kind = "none"}
FreeSockets(w) == {s \in DOMAIN w.sockets : w.sockets[s].rs = "none" \/ SocketDead(w, s)}
FreeProcs(w) == {p \in DOMAIN w.procs : w.procs[p].st = "none"}
\* a returned call's slot is free again; its frame is then never answered
FreeCalls(w) ==
  {n \in DOMAIN w.calls :
     \/ w.calls[n].method = "none"
     \/ w.calls[n].returned /\ n \notin w.rpcTimers /\ RpcId(n) \notin w.pendingRequests}
Lowest(S) == CHOOSE x \in S : \A y \in S : x <= y

StartFlows(w) == {f \in DOMAIN w.flows : w.flows[f].kind = "start"}
ReconnectFlows(w) == {f \in DOMAIN w.flows : w.flows[f].kind = "reconnect"}

\* a child has exitCode !== null || signalCode !== null
HasExited(w, p) == w.procs[p].st \in {"exited", "spawnerr"}

\* the pipeline's async function returns or throws
EndFlow(w, f) ==
  [w EXCEPT !.flows[f] = NoFlow,
            !.ep = IF w.flows[f].kind = "start" /\ StartFlows(w) = {f}
                     THEN [NoEpisode EXCEPT !.cancelled = w.ep.cancelled] ELSE @]

\* variant: a start() whose catch block records no error
FlowFailSilently(w, f) ==
  LET w0 == EndFlow(w, f)
  IN IF w.flows[f].kind = "start"
       THEN [SetStatus(w0, [state |-> "stopped"]) EXCEPT !.startLock = FALSE]
       ELSE ScheduleReconnect(w0)

\* variant: a start() whose catch block hands over to the reconnect schedule
FlowFailRetries(w, f) ==
  LET w0 == EndFlow(w, f)
  IN IF w.flows[f].kind = "start"
       THEN ScheduleReconnect([SetStatus(w0, [state |-> "error", error |-> "start-failed"])
                                 EXCEPT !.startLock = FALSE])
       ELSE ScheduleReconnect(w0)

\* variant: a start() with no finally block after its catch
FlowFailKeepsLock(w, f) ==
  LET w0 == EndFlow(w, f)
  IN IF w.flows[f].kind = "start"
       THEN SetStatus(w0, [state |-> "error", error |-> "start-failed"])
       ELSE ScheduleReconnect(w0)

\* start(): the catch and finally blocks; scheduleReconnect callback: the catch block
FlowFail(w, f) ==
  LET w0 == EndFlow(w, f)
  IN IF w.flows[f].kind = "start"
       THEN [SetStatus(w0, [state |-> "error", error |-> "start-failed"])
               EXCEPT !.startLock = FALSE]
       ELSE ScheduleReconnect(w0)

\* variant: the attach branch without `this.ownsProcess = false`
FlowSucceedKeepsOwnership(w, f) ==
  LET fl == w.flows[f]
      w0 == EndFlow(w, f)
      w1 == IF fl.existing THEN SetStatus(w0, [pid |-> Undefined]) ELSE w0
      w2 == IF fl.kind = "reconnect" THEN [w1 EXCEPT !.reconnectAttempts = 0] ELSE w1
      w3 == StartHealthCheck(w2)
  IN IF fl.kind = "start" THEN [w3 EXCEPT !.startLock = FALSE] ELSE w3

\* variant: the reconnect callback without `this.reconnectAttempts = 0`
FlowSucceedKeepsAttempts(w, f) ==
  LET fl == w.flows[f]
      w0 == EndFlow(w, f)
      w1 == IF fl.existing
              THEN SetStatus([w0 EXCEPT !.ownsProcess = FALSE], [pid |-> Undefined])
              ELSE w0
      w3 == StartHealthCheck(w1)
  IN IF fl.kind = "start" THEN [w3 EXCEPT !.startLock = FALSE] ELSE w3

\* the statements after `await this.connect(...)` in start() and in the reconnect callback
FlowSucceed(w, f) ==
  LET fl == w.flows[f]
      w0 == EndFlow(w, f)
      w1 == IF fl.existing
              THEN SetStatus([w0 EXCEPT !.ownsProcess = FALSE], [pid |-> Undefined])
              ELSE w0
      w2 == IF fl.kind = "reconnect" THEN [w1 EXCEPT !.reconnectAttempts = 0] ELSE w1
      w3 == StartHealthCheck(w2)
  IN IF fl.kind = "start" THEN [w3 EXCEPT !.startLock = FALSE] ELSE w3

\* a promise has settled and its awaiting continuation has not run yet
FlowReady(w, f) ==
  /\ w.flows[f].pc = "handshake"
  /\ w.sockets[w.flows[f].sock].result # "pending"

StopReady(w, n) == w.calls[n].cont # "none" /\ w.calls[n].settles > 0

CallReady(w, n) == w.calls[n].cont = "none" /\ w.calls[n].settles > 0 /\ ~w.calls[n].returned

\* some continuation is queued: it runs before the next event-loop task
MicrotaskPending ==
  \/ \E f \in DOMAIN flows : flows[f].pc = "handshake" /\ sockets[flows[f].sock].result # "pending"
  \/ \E n \in DOMAIN calls : calls[n].settles > 0 /\ ~calls[n].returned

\* variant: start() without the start-lock test
StartProceedsNoLock(w) == w.status.state # "running"

\* whether start() gets past its two early returns
StartProceeds(w) == ~w.startLock /\ w.status.state # "running"

\* start(): `if (this.reconnectTimer) { clearTimeout(this.reconnectTimer); this.reconnectTimer = null; }`
ClearReconnectTimer(w) ==
  IF w.reconnectTimer # 0
    THEN [Observe(w, "clearTimeout") EXCEPT !.reconnectTimer = 0]
    ELSE w

\* variant: start() that leaves the reconnect timer and the attempt counter as they are
StartBodyKeepsReconnect(w) ==
  LET inFlight == StartFlows(w) # {}
      h == IF inFlight THEN [w.ep EXCEPT !.calls = Min(@ + 1, 2)]
           ELSE [NoEpisode EXCEPT !.calls = 1]
  IN IF ~StartProceeds(w) THEN [w EXCEPT !.ep = IF inFlight THEN h ELSE @]
     ELSE LET f == Lowest(FreeFlows(w))
              w1 == [w EXCEPT !.startLock = TRUE, !.shouldReconnect = TRUE, !.ep = h]
              w2 == SetStatus(w1, [state |-> "starting", reconnectAttempts |-> 0])
          IN [w2 EXCEPT !.flows[f] = [NoFlow EXCEPT !.kind = "start", !.pc = "probe"]]

\* start(), synchronous part up to the first await
StartBody(w) ==
  LET inFlight == StartFlows(w) # {}
      h == IF inFlight THEN [w.ep EXCEPT !.calls = Min(@ + 1, 2)]
           ELSE [NoEpisode EXCEPT !.calls = 1]
  IN IF ~StartProceeds(w) THEN [w EXCEPT !.ep = IF inFlight THEN h ELSE @]
     ELSE LET f == Lowest(FreeFlows(w))
              w0 == [w EXCEPT !.startLock = TRUE, !.shouldReconnect = TRUE]
              w1 == [ClearReconnectTimer(w0) EXCEPT !.reconnectAttempts = 0, !.ep = h]
              w2 == SetStatus(w1, [state |-> "starting", reconnectAttempts |-> 0])
          IN [w2 EXCEPT !.flows[f] = [NoFlow EXCEPT !.kind = "start", !.pc = "probe"]]

\* a caller invokes start()
Start ==
  /\ ~MicrotaskPending
  /\ StartProceeds(World) => Cardinality(StartFlows(World)) < limits.starts
  /\ Apply(StartBody(World))

\* the reconnect timer fires: the callback up to its first await
ReconnectTimerFire ==
  /\ ~MicrotaskPending
  /\ reconnectTimer # 0
  /\ Cardinality(ReconnectFlows(World)) < limits.reconnects
  /\ LET f == Lowest(FreeFlows(World))
     IN Apply([World EXCEPT !.reconnectTimer = 0,
                            !.flows[f] = [NoFlow EXCEPT !.kind = "reconnect", !.pc = "probe"]])

\* findExistingGateway() resolves; then either connect() or startProcess() runs to its first await
ProbeDone(f, found, present) ==
  /\ ~MicrotaskPending
  /\ flows[f].pc = "probe"
  /\ Apply(IF found
             THEN [World EXCEPT !.flows[f].pc = "connect", !.flows[f].existing = TRUE]
           ELSE IF ~present THEN FlowFail(World, f)
           ELSE [World EXCEPT !.flows[f].pc = "spawn"])

\* waitForReady(): the check at the head of a loop iteration
ReadyIterate(w, f) ==
  IF w.process # 0 /\ HasExited(w, w.process)
    THEN FlowFail(w, f)
    ELSE [w EXCEPT !.flows[f].pc = "ready"]

\* startProcess(): the spawn and the handlers' registration; then waitForReady() begins
Spawn(f, entryOk, spawnOk) ==
  /\ ~MicrotaskPending
  /\ flows[f].pc = "spawn"
  /\ entryOk => FreeProcs(World) # {}
  /\ Apply(IF ~entryOk THEN FlowFail(World, f)
           ELSE LET p == Lowest(FreeProcs(World))
                    w1 == [World EXCEPT
                             !.procs[p] = [NoProc EXCEPT !.st = IF spawnOk THEN "alive" ELSE "failing"],
                             !.process = p, !.ownsProcess = TRUE,
                             !.flows[f].child = IF spawnOk THEN p ELSE 0,
                             !.ep.spawns = IF World.flows[f].kind = "start" THEN Min(@ + 1, 2) ELSE @]
                    w2 == IF spawnOk THEN SetStatus(w1, [pid |-> p]) ELSE w1
                IN ReadyIterate(w2, f))

\* waitForReady(): the probe of an iteration resolves
ReadyProbe(f, ready) ==
  /\ ~MicrotaskPending
  /\ flows[f].pc = "ready"
  /\ Apply(IF ready THEN [World EXCEPT !.flows[f].pc = "connect"]
           ELSE [World EXCEPT !.flows[f].pc = "sleep"])

\* waitForReady(): the sleep of an iteration ends
ReadySleepDone(f) ==
  /\ ~MicrotaskPending
  /\ flows[f].pc = "sleep"
  /\ Apply(LET w1 == [World EXCEPT !.flows[f].tries = @ + 1]
           IN IF w1.flows[f].tries >= limits.retries THEN FlowFail(w1, f)
              ELSE ReadyIterate(w1, f))

\* connect(): getSetting resolves, the socket is created and installed
ConnectSocket(f) ==
  /\ ~MicrotaskPending
  /\ flows[f].pc = "connect"
  /\ FreeSockets(World) # {}
  /\ LET s == Lowest(FreeSockets(World))
     IN Apply([World EXCEPT !.sockets[s] = [NoSocket EXCEPT !.rs = "connecting"],
                            !.ws = s,
                            !.flows[f].pc = "handshake", !.flows[f].sock = s,
                            !.ep.connects = IF World.flows[f].kind = "start" THEN Min(@ + 1, 2) ELSE @])

\* the continuation of `await this.connect(...)`
FlowContinue(f) ==
  /\ FlowReady(World, f)
  /\ Apply(IF sockets[flows[f].sock].result = "resolved"
             THEN FlowSucceed(World, f) ELSE FlowFail(World, f))

(***************************************************************************)
(* Socket events.                                                          *)
(***************************************************************************)

\* ws.on('open'): the handshake request is sent through this.ws and registered
OpenHandler(w, s) ==
  LET w1 == [w EXCEPT !.sockets[s].rs = "open", !.sockets[s].connectId = TRUE]
      target == w1.ws
  IN IF target # 0 /\ w1.sockets[target].rs = "connecting"
       THEN w1      \* send() throws on a CONNECTING socket: the handler ends here
       ELSE LET w2 == IF target # 0 /\ w1.sockets[target].rs = "open"
                        THEN [w1 EXCEPT !.sockets[s].sentOn = target]
                        ELSE w1
            IN [w2 EXCEPT !.sockets[s].handshakeTimeout = TRUE,
                          !.pendingRequests = @ \cup {ConnectId(s)}]

SocketOpen(s) ==
  /\ ~MicrotaskPending
  /\ sockets[s].rs = "connecting"
  /\ Apply(OpenHandler(World, s))

\* ws.on('error') followed by ws.on('close'), or ws.on('close') alone
\* variant: a close handler that drops the callers' pending requests and their timers
CloseHandlerDropsPending(w, s) ==
  LET w1 == [w EXCEPT !.sockets[s].rs = "closed",
                      !.pendingRequests = @ \ {RpcId(n) : n \in DOMAIN w.calls},
                      !.rpcTimers = {}]
  IN IF ~w1.sockets[s].handshakeComplete THEN RejectOnce(w1, s)
     ELSE LET w2 == CleanupHandshakeRequest(w1, s)
          IN IF w2.status.state = "running"
               THEN ScheduleReconnect(SetStatus(w2, [state |-> "stopped"]))
               ELSE w2

CloseHandler(w, s) ==
  LET w1 == [w EXCEPT !.sockets[s].rs = "closed"]
  IN IF ~w1.sockets[s].handshakeComplete THEN RejectOnce(w1, s)
     ELSE LET w2 == CleanupHandshakeRequest(w1, s)
          IN IF w2.status.state = "running"
               THEN ScheduleReconnect(SetStatus(w2, [state |-> "stopped"]))
               ELSE w2

SocketClose(s) ==
  /\ ~MicrotaskPending
  /\ sockets[s].rs \in {"connecting", "open", "closing"}
  /\ Apply(CloseHandler(World, s))

\* the handshake timer of socket s fires
HandshakeTimeoutHandler(w, s) ==
  LET w1 == [w EXCEPT !.sockets[s].handshakeTimeout = FALSE]
  IN IF ~w1.sockets[s].handshakeComplete
       THEN RejectOnce(CloseSocket(w1, w1.ws), s)
       ELSE w1

HandshakeTimeout(s) ==
  /\ ~MicrotaskPending
  /\ sockets[s].handshakeTimeout
  /\ Apply(HandshakeTimeoutHandler(World, s))

\* the ids of the request frames that went out on socket s
SentOn(w, s) ==
  {RpcId(n) : n \in {m \in DOMAIN w.calls : w.calls[m].sock = s}}
    \cup {ConnectId(t) : t \in {u \in DOMAIN w.sockets : w.sockets[u].sentOn = s}}

\* variant: a switch whose 'chat' case has no break
HandleProtocolEventFallsThrough(w, event, payload) ==
  CASE event = "tick" -> w
    [] event = "chat" ->
         EmitArgs(EmitArgs(w, "chat:message", [message |-> payload]),
                  "channel:status", payload)
    [] event = "channel.status" -> EmitArgs(w, "channel:status", payload)
    [] OTHER -> EmitArgs(w, "notification", [method |-> event, params |-> payload])

\* handleProtocolEvent(event, payload)
HandleProtocolEvent(w, event, payload) ==
  CASE event = "tick" -> w
    [] event = "chat" -> EmitArgs(w, "chat:message", [message |-> payload])
    [] event = "channel.status" -> EmitArgs(w, "channel:status", payload)
    [] OTHER -> EmitArgs(w, "notification", [method |-> event, params |-> payload])

\* ws.on('message') on socket s with an event frame: handleMessage() passes the
\* response branch (the type is not 'res') and takes the event branch
EventFrame(s, frame) ==
  /\ ~MicrotaskPending
  /\ sockets[s].rs \in {"open", "closing"}
  /\ Apply(HandleProtocolEvent(World, frame.event, frame.payload))

\* ws.on('message') on socket s with a response frame to a request sent on s
Response(s, id, frame) ==
  /\ ~MicrotaskPending
  /\ sockets[s].rs \in {"open", "closing"}
  /\ id \in SentOn(World, s)
  /\ Apply(HandleResponse(World, id, frame))

(***************************************************************************)
(* rpc()                                                                   *)
(***************************************************************************)

\* variant: the guard without the readyState test
NotConnectedNullOnly(w) == w.ws = 0

\* rpc(): the guard `!this.ws || this.ws.readyState !== WebSocket.OPEN`
NotConnected(w) == w.ws = 0 \/ w.sockets[w.ws].rs # "open"

\* rpc(method, params, timeoutMs): the promise executor; n is the fresh id
Rpc(w, n, method, cont) ==
  LET w1 == [w EXCEPT !.calls[n] = [NoCall EXCEPT !.method = method, !.outcome = "pending",
                                                   !.cont = cont]]
  IN IF NotConnected(w1)
       THEN SettleCall(w1, n, "not-connected", << "Error", "Gateway not connected" >>)
     ELSE [w1 EXCEPT !.rpcTimers = @ \cup {n},
                     !.pendingRequests = @ \cup {RpcId(n)},
                     !.calls[n].sock = w1.ws]

\* a caller invokes rpc()
RpcCall ==
  /\ ~MicrotaskPending
  /\ FreeCalls(World) # {}
  /\ Apply(Rpc(World, Lowest(FreeCalls(World)), "call", "none"))

\* the caller's continuation of `await rpc(...)`: it has the outcome, the record is history
CallReturn(n) ==
  /\ CallReady(World, n)
  /\ Apply([World EXCEPT !.calls[n].returned = TRUE])

\* variant: the timeout callback without pendingRequests.delete(id)
RpcTimeoutKeepsEntry(w, n) ==
  SettleCall([w EXCEPT !.rpcTimers = @ \ {n}], n, "timeout", << "Error", "RPC timeout" >>)

\* variant: a timeout callback that drops every pending request and closes the socket
RpcTimeoutDropsAll(w, n) ==
  SettleCall([CloseSocket(w, w.ws) EXCEPT !.rpcTimers = {}, !.pendingRequests = {}],
             n, "timeout", << "Error", "RPC timeout" >>)

\* rpc(): the timeout callback of call n
RpcTimeoutHandler(w, n) ==
  SettleCall([w EXCEPT !.rpcTimers = @ \ {n}, !.pendingRequests = @ \ {RpcId(n)}],
             n, "timeout", << "Error", "RPC timeout" >>)

RpcTimeout(n) ==
  /\ ~MicrotaskPending
  /\ n \in rpcTimers
  /\ Apply(RpcTimeoutHandler(World, n))

(***************************************************************************)
(* stop() and restart()                                                    *)
(***************************************************************************)

\* stop(): `for (const [, request] of this.pendingRequests)` over the ids still to visit
RECURSIVE RejectEach(_, _)
RejectEach(w, ids) ==
  IF ids = {} THEN w
  ELSE LET id == CHOOSE i \in ids : TRUE
       IN RejectEach(RequestReject(ClearRequestTimeout(w, id), id, "stopped",
                                   << "Error", "Gateway stopped" >>),
                     ids \ {id})

\* stop(): child.kill('SIGTERM') and the 5s force-kill timer
Terminate(w, p) ==
  [w EXCEPT !.procs[p].sigterm = TRUE, !.procs[p].killTimer = TRUE]

\* variant: stop() that clears the table without rejecting its entries
StopRestClearsOnly(w) ==
  LET w1 == [CloseSocket(w, w.ws) EXCEPT !.ws = 0]
      w2 == IF w1.process # 0 /\ w1.ownsProcess
              THEN [Terminate(w1, w1.process) EXCEPT !.process = 0]
              ELSE w1
      w3 == [w2 EXCEPT !.ownsProcess = FALSE, !.pendingRequests = {}]
  IN SetStatus(w3, [state |-> "stopped", error |-> "none", pid |-> Undefined,
                    connectedAt |-> Undefined])

\* stop(): everything after the optional `await this.rpc('shutdown')`
StopRest(w) ==
  LET w1 == [CloseSocket(w, w.ws) EXCEPT !.ws = 0]
      w2 == IF w1.process # 0 /\ w1.ownsProcess
              THEN [Terminate(w1, w1.process) EXCEPT !.process = 0]
              ELSE w1
      w3 == [w2 EXCEPT !.ownsProcess = FALSE]
      w4 == [RejectEach(w3, w3.pendingRequests) EXCEPT !.pendingRequests = {}]
  IN SetStatus(w4, [state |-> "stopped", error |-> "none", pid |-> Undefined,
                    connectedAt |-> Undefined])

\* restart(): stop() has resolved, the 1s pause begins
AfterStop(w, cont) ==
  IF cont = "restart" THEN [w EXCEPT !.restartDelay = @ + 1] ELSE w

\* stop(): the statements before the optional await
StopBegin(w) ==
  ClearAllTimers([w EXCEPT !.shouldReconnect = FALSE,
                           !.ep.cancelled = (w.reconnectTimer # 0)])

\* stop(): whether the external-gateway shutdown request is made
AsksShutdown(w) == ~w.ownsProcess /\ ~NotConnected(w)

\* stop(), up to its await or, when nothing is awaited, to its end
StopBody(w, cont) ==
  LET w1 == StopBegin(w)
  IN IF AsksShutdown(w1)
       THEN Rpc(w1, Lowest(FreeCalls(w1)), "shutdown", cont)
       ELSE AfterStop(StopRest(w1), cont)

RestartsInFlight == restartDelay + Cardinality({n \in DOMAIN calls : calls[n].cont = "restart"})

\* a caller invokes stop()
Stop ==
  /\ ~MicrotaskPending
  /\ AsksShutdown(StopBegin(World)) => FreeCalls(World) # {}
  /\ Apply(StopBody(World, "stop"))

\* a caller invokes restart()
Restart ==
  /\ ~MicrotaskPending
  /\ RestartsInFlight < limits.restarts
  /\ AsksShutdown(StopBegin(World)) => FreeCalls(World) # {}
  /\ Apply(StopBody(World, "restart"))

\* stop(): the continuation of `await this.rpc('shutdown', ...)`
StopResume(n) ==
  /\ StopReady(World, n)
  /\ Apply(AfterStop(StopRest([World EXCEPT !.calls[n].cont = "none",
                                            !.calls[n].returned = TRUE]),
                     calls[n].cont))

\* restart(): the pause ends and start() is invoked
RestartWake ==
  /\ ~MicrotaskPending
  /\ restartDelay > 0
  /\ StartProceeds(World) => Cardinality(StartFlows(World)) < limits.starts
  /\ Apply(StartBody([World EXCEPT !.restartDelay = @ - 1]))

(***************************************************************************)
(* Child process events.                                                   *)
(***************************************************************************)

\* child.on('exit')
ExitHandler(w, p) ==
  LET w1 == [w EXCEPT !.procs[p].st = "exited", !.ownsProcess = FALSE]
      w2 == IF w1.process = p THEN [w1 EXCEPT !.process = 0] ELSE w1
  IN IF w2.status.state = "running"
       THEN ScheduleReconnect(SetStatus(w2, [state |-> "stopped"]))
       ELSE w2

ProcExit(p) ==
  /\ ~MicrotaskPending
  /\ procs[p].st = "alive"
  /\ Apply(ExitHandler(World, p))

\* child.on('error'): the spawn failed, exitCode is set and no 'exit' follows
ErrorHandler(w, p) ==
  [w EXCEPT !.procs[p].st = "spawnerr", !.ownsProcess = FALSE]

ChildError(p) ==
  /\ ~MicrotaskPending
  /\ procs[p].st = "failing"
  /\ Apply(ErrorHandler(World, p))

\* variant: a force-kill timer callback that never escalates
KillTimerHandlerNoKill(w, p) ==
  LET w1 == [w EXCEPT !.procs[p].killTimer = FALSE]
  IN IF w1.process = p THEN [w1 EXCEPT !.process = 0] ELSE w1

\* stop(): the force-kill timer callback of child p
KillTimerHandler(w, p) ==
  LET w1 == [w EXCEPT !.procs[p].killTimer = FALSE,
                      !.procs[p].sigkill = IF HasExited(w, p) THEN @ ELSE TRUE]
  IN IF w1.process = p THEN [w1 EXCEPT !.process = 0] ELSE w1

KillTimer(p) ==
  /\ ~MicrotaskPending
  /\ procs[p].killTimer
  /\ Apply(KillTimerHandler(World, p))

(***************************************************************************)
(* Health monitoring.                                                      *)
(***************************************************************************)

\* checkHealth(): ok iff `this.ws && this.ws.readyState === WebSocket.OPEN`
HealthOk(w) == w.ws # 0 /\ w.sockets[w.ws].rs = "open"

\* checkHealth() as invoked by the 'gateway:health' handler: the result goes to the caller
CheckHealth(w) == Observe(w, IF HealthOk(w) THEN "health:ok" ELSE "health:failed")

\* variant: a periodic check that tears the connection down when it fails
HealthCheckCallbackReconnects(w) ==
  IF w.status.state # "running" THEN w
  ELSE IF HealthOk(w) THEN w
  ELSE ScheduleReconnect(SetStatus([CloseSocket(w, w.ws) EXCEPT !.ws = 0], [state |-> "stopped"]))

\* startHealthCheck(): the interval callback
HealthCheckCallback(w) ==
  IF w.status.state # "running" THEN w
  ELSE IF HealthOk(w) THEN w
  ELSE Emit(w, "error")

\* the health-check interval fires
HealthCheckTick ==
  /\ ~MicrotaskPending
  /\ healthCheckInterval
  /\ Apply(HealthCheckCallback(World))

\* a caller invokes checkHealth()
CheckHealthCall ==
  /\ ~MicrotaskPending
  /\ Apply(CheckHealth(World))

(***************************************************************************)
(* Specification                                                           *)
(***************************************************************************)

\* start(), connect() and the socket's handlers
Connection ==
  \/ Start
  \/ \E f \in DOMAIN flows : \E found, present \in BOOLEAN : ProbeDone(f, found, present)
  \/ \E f \in DOMAIN flows : ConnectSocket(f)
  \/ \E f \in DOMAIN flows : FlowContinue(f)
  \/ \E s \in DOMAIN sockets : SocketOpen(s)
  \/ \E s \in DOMAIN sockets : SocketClose(s)
  \/ \E s \in DOMAIN sockets : HandshakeTimeout(s)
  \/ \E s \in DOMAIN sockets : \E id \in SentOn(World, s) :
       \E frame \in limits.frames : Response(s, id, frame)

\* stop() and the timeout of the requests it and the callers make
Stopping ==
  \/ Stop
  \/ \E n \in DOMAIN calls : RpcTimeout(n)
  \/ \E n \in DOMAIN calls : StopResume(n)

Lifecycle == Connection \/ Stopping

\* the reconnect timer callback
Reconnects == ReconnectTimerFire

\* rpc() invoked by callers
Calls ==
  \/ RpcCall
  \/ \E n \in DOMAIN calls : CallReturn(n)

\* startProcess(), waitForReady() and the child's handlers
Children ==
  \/ \E f \in DOMAIN flows : \E entryOk, spawnOk \in BOOLEAN : Spawn(f, entryOk, spawnOk)
  \/ \E f \in DOMAIN flows : \E ready \in BOOLEAN : ReadyProbe(f, ready)
  \/ \E f \in DOMAIN flows : ReadySleepDone(f)
  \/ \E p \in DOMAIN procs : ProcExit(p)
  \/ \E p \in DOMAIN procs : ChildError(p)

\* the children and the force-kill timer stop() arms
Supervision ==
  \/ Children
  \/ \E p \in DOMAIN procs : KillTimer(p)

\* restart()
Restarts ==
  \/ Restart
  \/ RestartWake

\* The connection and its callers: a Gateway is found listening or cannot be launched.
Next == Lifecycle \/ Reconnects \/ Calls

Spec == Init /\ [][Next]_vars

\* The start pipeline with the child it launches.
NextStart == Lifecycle \/ Supervision

SpecStart == InitOneCall /\ [][NextStart]_vars

\* Pipelines racing over two sockets, with no caller of stop().
NextRace == Connection \/ Reconnects

SpecRace == InitRace /\ [][NextRace]_vars

\* Reconnection up to the backoff ceiling.
NextBackoff == Lifecycle \/ Reconnects

SpecBackoff == InitBackoff /\ [][NextBackoff]_vars

\* The pipelines of start() and of the reconnect timer with the child they launch.
NextOwned == Connection \/ Children \/ Reconnects

SpecOwned == InitOwned /\ [][NextOwned]_vars

\* the periodic health check and checkHealth()
Health == HealthCheckTick \/ CheckHealthCall

\* Health monitoring beside racing pipelines.
NextHealth == Connection \/ Reconnects \/ Health

SpecHealth == InitHealth /\ [][NextHealth]_vars

\* event frames pushed by the Gateway
Events == \E s \in DOMAIN sockets : \E frame \in EventFrames : EventFrame(s, frame)

\* Callers and a Gateway that pushes events.
NextEvents == Connection \/ Calls \/ Events

SpecEvents == InitEvents /\ [][NextEvents]_vars

\* Callers and a Gateway that answers with any response frame.
NextFrames == Connection \/ Calls

SpecFrames == InitFrames /\ [][NextFrames]_vars

\* Callers' requests while sockets close, children exit and stop() runs.
NextCalls == Lifecycle \/ Supervision \/ Calls

SpecCalls == Init /\ [][NextCalls]_vars

\* start() and the child it waits for.
NextReady == Connection \/ Children

SpecReady == InitReady /\ [][NextReady]_vars

TypeOK ==
  /\ status.state \in States
  /\ ws \in {0} \cup DOMAIN sockets
  /\ process \in {0} \cup DOMAIN procs

(***************************************************************************)
(* Properties.                                                             *)
(***************************************************************************)

\* every variable but the history
managerVars == << process, ownsProcess, ws, status, reconnectTimer, pingInterval,
                  healthCheckInterval, reconnectAttempts, reconnectConfig, shouldReconnect,
                  startLock, pendingRequests, sockets, procs, calls, rpcTimers,
                  flows, restartDelay >>

\* C1: while a start() is in flight a second start() changes nothing, and over the
\* whole episode one pipeline runs, one child is spawned and one connection attempted.
C1_SecondStartIsNoOp ==
  /\ [](/\ Cardinality(StartFlows(World)) <= 1
        /\ ep.spawns <= 1
        /\ ep.connects <= 1)
  /\ [][ep.calls = 1 /\ ep'.calls = 2 => UNCHANGED managerVars]_vars

\* a second start() was made during an episode that spawned and connected once
C1_Witness == ep.calls = 2 /\ ep.spawns = 1 /\ ep.connects = 1

\* a call whose request was registered in the pending table
Registered(n) == calls[n].method # "none" /\ calls[n].outcome # "not-connected"

\* C2: a registered call is never settled twice, and while it is unsettled its entry
\* is in the table with its timeout armed, so that it cannot stay unsettled; once
\* settled (by a response, its timeout or stop()) neither entry nor timer is left.
C2_SettledExactlyOnce ==
  \A n \in DOMAIN calls :
    Registered(n) =>
      /\ calls[n].settles <= 1
      /\ calls[n].settles = 0 => RpcId(n) \in pendingRequests /\ n \in rpcTimers
      /\ calls[n].settles = 1 =>
            /\ RpcId(n) \notin pendingRequests
            /\ n \notin rpcTimers
            /\ calls[n].outcome \in {"resolved", "remote", "timeout", "stopped"}

\* one call settled by a response while another is still pending
C2_Witness ==
  \E n, m \in DOMAIN calls :
    /\ calls[n].method = "call" /\ calls[n].outcome \in {"resolved", "remote"}
    /\ calls[n].settles = 1
    /\ calls[m].method = "call" /\ calls[m].outcome = "pending"

\* C3: the timeout of a pending call rejects it with the timeout error and removes
\* its entry; from then on the call keeps that outcome until its record is dropped
\* or its slot taken by a new call: a response frame with its id that arrives
\* later settles nothing.
C3_TimeoutThenLateResponse ==
  [][\A n \in DOMAIN calls :
       /\ (calls[n].outcome = "pending" /\ calls'[n].outcome = "timeout") =>
            /\ n \in rpcTimers /\ n \notin rpcTimers'
            /\ RpcId(n) \notin pendingRequests'
            /\ calls'[n].settles = 1
       /\ calls[n].outcome = "timeout" =>
            \/ calls'[n].outcome = "timeout" /\ calls'[n].settles = 1
                  /\ RpcId(n) \notin pendingRequests'
            \/ calls[n].returned /\ ~calls'[n].returned
            \/ calls'[n] = NoCall]_vars

\* a call that timed out, on a socket that can still deliver the response to it
C3_Witness ==
  \E n \in DOMAIN calls :
    /\ calls[n].method = "call" /\ calls[n].outcome = "timeout" /\ calls[n].returned
    /\ calls[n].sock # 0
    /\ sockets[calls[n].sock].rs = "open"
    /\ RpcId(n) \in SentOn(World, calls[n].sock)

\* the step in which a stop() runs its teardown to the end and resolves
StopResolves ==
  \/ (Stop \/ Restart) /\ ~AsksShutdown(StopBegin(World))
  \/ \E n \in DOMAIN calls : StopResume(n)

\* C4: when stop() tears down, every call still in the pending table is rejected
\* with the stopped error and its timer cancelled; as stop() resolves the table is
\* empty and no call timer is armed.
C4_StopRejectsPending ==
  [][StopResolves =>
       /\ pendingRequests' = {}
       /\ rpcTimers' = {}
       /\ \A n \in DOMAIN calls :
            RpcId(n) \in pendingRequests =>
              calls'[n].outcome = "stopped" /\ calls'[n].settles = 1]_vars

\* stop() has resolved and rejected a caller's pending call
C4_Witness ==
  /\ status.state = "stopped"
  /\ pendingRequests = {}
  /\ \E n \in DOMAIN calls : calls[n].method = "call" /\ calls[n].outcome = "stopped"

\* C5: the step in which stop() is invoked leaves no reconnect, ping or health-check
\* timer armed; while the controller is disabled no reconnect timer exists, so the
\* reconnect callback only ever fires with shouldReconnect set.
C5_StopCancelsTimers ==
  /\ [](~shouldReconnect => reconnectTimer = 0)
  /\ [][(Stop \/ Restart) =>
          reconnectTimer' = 0 /\ ~pingInterval' /\ ~healthCheckInterval']_vars
  /\ [][ReconnectTimerFire => shouldReconnect]_vars

\* stop() cleared a reconnect timer that was waiting for its delay
C5_Witness ==
  /\ ep.cancelled
  /\ ~shouldReconnect
  /\ reconnectTimer = 0
  /\ status.state = "stopped"

\* C6: when stop() resolves the state is 'stopped' and shouldReconnect is false.
C6_StopLeavesStopped ==
  [][StopResolves => status'.state = "stopped" /\ ~shouldReconnect']_vars

\* C7: rpc() without an open socket rejects at once with the not-connected error,
\* adds no entry to the pending table, arms no timeout and sends no frame.
C7_NotConnectedRejects ==
  [][(RpcCall /\ (ws = 0 \/ sockets[ws].rs # "open")) =>
       /\ pendingRequests' = pendingRequests
       /\ rpcTimers' = rpcTimers
       /\ \A s \in DOMAIN sockets : SentOn(World, s)' \subseteq SentOn(World, s)
       /\ \E n \in DOMAIN calls :
            /\ calls'[n].outcome = "not-connected"
            /\ calls'[n].settles = 1
            /\ calls'[n].sock = 0]_vars

\* a call rejected for want of an open socket while a socket exists that is not open
C7_Witness ==
  /\ ws # 0
  /\ sockets[ws].rs # "open"
  /\ \E n \in DOMAIN calls : calls[n].outcome = "not-connected" /\ ~calls[n].returned

\* C8: the state becomes 'running' only in a step that receives, on the current
\* socket, the positive response to a pending handshake request sent on it; that
\* step stamps connectedAt.
C8_RunningOnlyByHandshakeAck ==
  [][(status.state # "running" /\ status'.state = "running") =>
       /\ ws # 0
       /\ \E t \in DOMAIN sockets :
            /\ sockets[t].sentOn = ws
            /\ ConnectId(t) \in pendingRequests
            /\ \E frame \in limits.frames : ~Rejects(frame) /\ Response(ws, ConnectId(t), frame)
       /\ status'.connectedAt # Undefined]_vars

\* C9: the k-th consecutive scheduled reconnect is armed with
\* min(baseDelay * 2^(k-1), maxDelay): 1000, 2000, 4000, 8000, 16000, 30000 for
\* k = 1..6 under the default configuration.
C9_BackoffDelays ==
  [][(reconnectTimer' # 0 /\ reconnectTimer' # reconnectTimer) =>
       LET k == reconnectAttempts'
       IN /\ k = reconnectAttempts + 1
          /\ reconnectTimer' = Min(reconnectConfig.baseDelay * (2 ^ (k - 1)),
                                   reconnectConfig.maxDelay)
          /\ k \in 1..6 =>
                reconnectTimer' = << 1000, 2000, 4000, 8000, 16000, 30000 >>[k]]_vars

\* the sixth consecutive reconnect is waiting with the clipped delay
C9_Witness == reconnectAttempts = 6 /\ reconnectTimer = 30000

\* the reconnect attempts are used up and the terminal error is published
Exhausted ==
  /\ status.state = "error"
  /\ status.error = "max-attempts"
  /\ reconnectAttempts >= reconnectConfig.maxAttempts

\* a caller invokes start(), restart() or stop(), or one of them resumes
ManualStep ==
  \/ Start
  \/ Stop
  \/ Restart
  \/ RestartWake
  \/ \E n \in DOMAIN calls : StopResume(n)

\* C10: a reconnect requested with the attempts used up publishes 'error' and arms
\* no timer, and from then on the state stays 'error' with no reconnect timer
\* until a caller steps in.
C10_ExhaustedIsTerminal ==
  /\ [][(status'.error = "max-attempts" /\ status.error # "max-attempts") =>
          status'.state = "error" /\ reconnectTimer' = 0]_vars
  /\ [][Exhausted =>
          \/ status'.state = "error" /\ reconnectTimer' = 0
          \/ ManualStep]_vars


\* the 'status' events among what the last handler emitted, as << state, reconnectAttempts >>
StatusEvents(obs) ==
  [i \in DOMAIN SelectSeq(obs, LAMBDA e : e.event = "status") |->
     << SelectSeq(obs, LAMBDA e : e.event = "status")[i].state,
        SelectSeq(obs, LAMBDA e : e.event = "status")[i].reconnectAttempts >>]

\* the child the manager launched and still owns exits while the state is 'running'
\* and no stop() has been requested
OwnedExitWhileRunning(p) ==
  /\ ProcExit(p)
  /\ process = p /\ ownsProcess
  /\ status.state = "running"
  /\ shouldReconnect

\* C11: when the owned child exits while the state is 'running' and stop() was not
\* requested, the exit handler emits 'stopped' and then 'reconnecting' with
\* reconnectAttempts = 1, and arms the reconnect timer with baseDelay.
C11_OwnedExitReconnects ==
  [][\A p \in DOMAIN procs :
       OwnedExitWhileRunning(p) =>
         /\ Len(StatusEvents(observed')) = 2
         /\ StatusEvents(observed')[1][1] = "stopped"
         /\ StatusEvents(observed')[2] = << "reconnecting", 1 >>
         /\ reconnectTimer' = reconnectConfig.baseDelay]_vars


\* start() resolves after it found no Gateway listening and spawned child p
SpawnedStartResolves(f, p) ==
  /\ FlowContinue(f)
  /\ flows[f].kind = "start" /\ ~flows[f].existing /\ flows[f].child = p
  /\ sockets[flows[f].sock].result = "resolved"

\* C12: a start() that found no Gateway listening, spawned a child, saw the port
\* accept connections and had its handshake acknowledged resolves with state
\* 'running', connectedAt set, pid the child's pid and the process marked owned.
C12_SpawnedStartResolvesOwned ==
  [][\A f \in DOMAIN flows : \A p \in DOMAIN procs :
       SpawnedStartResolves(f, p) =>
         /\ status'.state = "running"
         /\ status'.connectedAt # Undefined
         /\ status'.pid = p
         /\ ownsProcess']_vars


\* start() resolves after it found a Gateway listening
AttachedStartResolves(f) ==
  /\ FlowContinue(f)
  /\ flows[f].kind = "start" /\ flows[f].existing
  /\ sockets[flows[f].sock].result = "resolved"

\* the manager is attached to a Gateway it does not own
Attached ==
  /\ ~ownsProcess
  /\ status.state = "running"
  /\ ws # 0 /\ sockets[ws].rs = "open"

\* no child is sent SIGTERM or SIGKILL in the step
NoSignalSent ==
  \A p \in DOMAIN procs :
    \/ procs'[p] = NoProc
    \/ procs'[p].sigterm = procs[p].sigterm /\ procs'[p].sigkill = procs[p].sigkill

\* C13: a start() that found a Gateway listening resolves without having spawned a
\* child and with ownsProcess false; a stop() of the attached manager sends a
\* 'shutdown' request on the socket and signals no child, neither when it is invoked
\* nor when it resumes with ownsProcess still false.
C13_AttachThenShutdown ==
  /\ [][\A f \in DOMAIN flows :
          AttachedStartResolves(f) => flows[f].child = 0 /\ ~ownsProcess']_vars
  /\ [][Stop /\ Attached =>
          /\ \E n \in DOMAIN calls :
                /\ RpcId(n) \notin pendingRequests /\ RpcId(n) \in pendingRequests'
                /\ calls'[n].method = "shutdown" /\ calls'[n].sock = ws
                /\ calls'[n].outcome = "pending"
          /\ NoSignalSent]_vars
  /\ [][(\E n \in DOMAIN calls : StopResume(n)) /\ ~ownsProcess => NoSignalSent]_vars

\* stop() has asked the attached Gateway to shut down while a child launched earlier lives on unsignalled
C13_Witness ==
  /\ ~ownsProcess
  /\ \E n \in DOMAIN calls : calls[n].method = "shutdown" /\ calls[n].outcome = "pending"
  /\ \E p \in DOMAIN procs : procs[p].st = "alive" /\ ~procs[p].sigterm


\* the sockets that are CONNECTING or OPEN
ActiveSockets == {s \in DOMAIN sockets : sockets[s].rs \in {"connecting", "open"}}

\* C14: a manager has at most one socket that is connecting or open at any instant:
\* when connect() installs a socket, those it created before are closed.
C14_OneActiveSocket == Cardinality(ActiveSockets) <= 1


\* a start() that gets past its two early returns: its pipeline is created, at the probe
StartAttempts(f) ==
  /\ Start
  /\ StartProceeds(World)
  /\ flows[f].kind = "none" /\ flows'[f].kind = "start"

\* C15: a start() that attempts a connection has cleared the pending reconnect timer
\* and zeroed the attempt counter, internal and published, by the time its pipeline
\* is at the probe: before any probe result, spawn or connect of that start.
C15_StartResetsReconnect ==
  [][\A f \in DOMAIN flows :
       StartAttempts(f) =>
         /\ reconnectTimer' = 0
         /\ reconnectAttempts' = 0
         /\ status'.reconnectAttempts = 0
         /\ flows'[f].pc = "probe" /\ flows'[f].sock = 0 /\ flows'[f].child = 0]_vars

\* start() has just cleared a timer armed after a failed attempt and is at its probe
C15_Witness ==
  /\ Len(observed) = 2
  /\ observed[1].event = "clearTimeout" /\ observed[1].reconnectAttempts = 1
  /\ observed[2].event = "status" /\ observed[2].state = "starting"
  /\ reconnectTimer = 0 /\ reconnectAttempts = 0
  /\ \E f \in DOMAIN flows : flows[f].kind = "start" /\ flows[f].pc = "probe"


\* C16: a health check, periodic or through checkHealth(), changes nothing of the
\* manager whatever it reports: status, socket, pending requests, reconnect timer
\* and counter stay as they are; a failed check only emits 'error'.
C16_HealthCheckChangesNothing ==
  [][Health => UNCHANGED managerVars]_vars

\* a periodic check has just failed while the state is 'running': 'error' was emitted
C16_Witness ==
  /\ Len(observed) = 1 /\ observed[1].event = "error"
  /\ status.state = "running"
  /\ ~HealthOk(World)
  /\ healthCheckInterval


\* C17: when the timer of call n fires, only that call is touched: the socket and
\* every socket's state, the status and the reconnect timer are unchanged, and every
\* other pending request stays in the table with its timer armed.
C17_TimeoutTouchesOneCall ==
  [][\A n \in DOMAIN calls :
       RpcTimeout(n) =>
         /\ ws' = ws /\ sockets' = sockets
         /\ status' = status
         /\ reconnectTimer' = reconnectTimer /\ reconnectAttempts' = reconnectAttempts
         /\ pendingRequests' = pendingRequests \ {RpcId(n)}
         /\ rpcTimers' = rpcTimers \ {n}
         /\ \A m \in DOMAIN calls \ {n} : calls'[m] = calls[m]]_vars

\* one call has just timed out while another is pending with its timer armed on the open socket
C17_Witness ==
  \E n, m \in DOMAIN calls :
    /\ calls[n].outcome = "timeout" /\ ~calls[n].returned
    /\ calls[m].outcome = "pending" /\ RpcId(m) \in pendingRequests /\ m \in rpcTimers
    /\ ws # 0 /\ sockets[ws].rs = "open"
    /\ status.state = "running"


\* a response frame for the pending call n arrives
AnswersPending(n, frame) ==
  /\ RpcId(n) \in pendingRequests
  /\ \E s \in DOMAIN sockets : Response(s, RpcId(n), frame)

\* the frame carries an error
ErrorPresent(frame) == ~Nullish(frame.error)

HandshakeFails(s) ==
  \/ HandshakeTimeout(s) /\ ~sockets[s].handshakeComplete /\ ~sockets[s].settled
  \/ /\ ConnectId(s) \in pendingRequests
     /\ \E t \in DOMAIN sockets : \E frame \in limits.frames :
          Rejects(frame) /\ Response(t, ConnectId(s), frame)

\* the start() pipeline f awaits the handshake on socket s
StartAwaits(f, s) == flows[f].kind = "start" /\ flows[f].pc = "handshake" /\ flows[f].sock = s

\* C19: when the handshake of a start() times out or is answered with an error,
\* connect() is rejected with start() next to run, and start() then ends rejected
\* with state 'error' and an error message in the status.
C19_HandshakeFailureFailsStart ==
  /\ [][\A f \in DOMAIN flows : \A s \in DOMAIN sockets :
          HandshakeFails(s) /\ StartAwaits(f, s) =>
            /\ sockets'[s].result = "rejected"
            /\ flows'[f] = flows[f]]_vars
  /\ [][\A f \in DOMAIN flows : \A s \in DOMAIN sockets :
          StartAwaits(f, s) /\ sockets[s].result = "rejected" /\ FlowContinue(f) =>
            /\ flows'[f] = NoFlow
            /\ status'.state = "error"
            /\ status'.error # "none"]_vars

\* start() has failed on a handshake the Gateway answered with an error: the socket is still open
C19_Witness ==
  /\ status.state = "error" /\ status.error = "start-failed"
  /\ StartFlows(World) = {}
  /\ \E s \in DOMAIN sockets :
       sockets[s].rs = "open" /\ sockets[s].settled /\ sockets[s].result = "rejected"


\* the start() pipeline f finds the OpenClaw package, its build or its entry script missing
ArtifactsMissing(f) ==
  /\ flows[f].kind = "start"
  /\ \/ ProbeDone(f, FALSE, FALSE)
     \/ \E spawnOk \in BOOLEAN : Spawn(f, FALSE, spawnOk)

\* C20: a start() that fails because the package, its build or its entry script is
\* missing ends rejected with state 'error' and an error message, and schedules no
\* retry: the failure arms no reconnect timer, starts no reconnect attempt and does
\* not advance the attempt counter.
C20_MissingArtifactsNoRetry ==
  [][\A f \in DOMAIN flows :
       ArtifactsMissing(f) =>
         /\ flows'[f] = NoFlow
         /\ status'.state = "error" /\ status'.error # "none"
         /\ reconnectTimer' = reconnectTimer
         /\ reconnectAttempts' = reconnectAttempts
         /\ ReconnectFlows(World)' = ReconnectFlows(World)]_vars

\* start() has failed before any child was spawned or socket created, and nothing is scheduled
C20_Witness ==
  /\ status.state = "error" /\ status.error = "start-failed"
  /\ ~startLock /\ StartFlows(World) = {}
  /\ process = 0 /\ \A p \in DOMAIN procs : procs[p] = NoProc
  /\ ws = 0 /\ \A s \in DOMAIN sockets : sockets[s] = NoSocket
  /\ reconnectTimer = 0


\* C21: a stop() that finds an owned child sends it SIGTERM and arms the 5s timer;
\* when the timer fires on a child that has not exited, the child is sent SIGKILL;
\* a child is signalled only by these two steps, so only while or after being owned.
C21_OwnedChildIsTerminated ==
  /\ [][StopResolves /\ process # 0 /\ ownsProcess =>
          procs'[process].sigterm /\ procs'[process].killTimer]_vars
  /\ [][\A p \in DOMAIN procs :
          KillTimer(p) =>
            IF HasExited(World, p)
              THEN procs'[p] = NoProc \/ procs'[p].sigkill = procs[p].sigkill
              ELSE procs'[p].sigkill]_vars
  /\ [][\A p \in DOMAIN procs :
          /\ (~procs[p].sigterm /\ procs'[p].sigterm) =>
               StopResolves /\ process = p /\ ownsProcess
          /\ (~procs[p].sigkill /\ procs'[p].sigkill) =>
               KillTimer(p) /\ procs[p].sigterm]_vars

\* a child that outlived the grace period has been sent SIGTERM and then SIGKILL
C21_Witness ==
  \E p \in DOMAIN procs :
    procs[p].st = "alive" /\ procs[p].sigterm /\ procs[p].sigkill /\ ~procs[p].killTimer


\* the handshake timer of socket s fires with no acknowledgment received
HandshakeTimesOut(s) ==
  HandshakeTimeout(s) /\ ~sockets[s].handshakeComplete /\ ~sockets[s].settled

\* C22: when the handshake timer of a socket fires before the acknowledgment, that
\* socket is closed and its connect() is rejected; an acknowledgment of that
\* handshake arriving afterwards leaves the state as it is.
C22_HandshakeTimeoutClosesSocket ==
  /\ [][\A s \in DOMAIN sockets :
          HandshakeTimesOut(s) =>
            /\ sockets'[s].rs \in {"closing", "closed"}
            /\ sockets'[s].result = "rejected"
            /\ ConnectId(s) \notin pendingRequests']_vars
  /\ [][\A s, t \in DOMAIN sockets : \A frame \in limits.frames :
          (sockets[s].result = "rejected" /\ ~Rejects(frame) /\ Response(t, ConnectId(s), frame)) =>
            status' = status]_vars


\* the request frame of call n goes out on socket s in the step
SendsOn(n, s) ==
  /\ RpcId(n) \notin pendingRequests /\ RpcId(n) \in pendingRequests'
  /\ calls'[n].sock = s

\* C23: a socket whose handshake failed is not used again: no request frame goes out
\* on it, so a call made after the failure is rejected as not connected.
C23_FailedSocketNotReused ==
  [][\A n \in DOMAIN calls : \A s \in DOMAIN sockets :
       SendsOn(n, s) => sockets[s].result # "rejected"]_vars


\* the child that pipeline f spawned has exited
ChildGone(f) ==
  /\ flows[f].child # 0
  /\ procs[flows[f].child].st \notin {"alive", "failing"}

\* C24: when the sleep of a waitForReady() iteration ends and the spawned child has
\* exited, the wait fails there: the pipeline does not go on to another probe.
C24_WaitAbortsOnExit ==
  [][\A f \in DOMAIN flows :
       ReadySleepDone(f) /\ ChildGone(f) => flows'[f] = NoFlow]_vars


\* the socket of an acknowledged connection closes, or a child exits
Disconnects ==
  \/ \E s \in DOMAIN sockets : SocketClose(s) /\ sockets[s].handshakeComplete
  \/ \E p \in DOMAIN procs : ProcExit(p)

\* C25: with stop() not requested, a close or an exit in state 'running' leaves a
\* reconnect timer pending, counted once (not again when a timer was pending already);
\* a close or an exit in any other state, as the second event of one disconnect is,
\* changes neither the timer nor the attempt counter.
C25_OneReconnectPerDisconnect ==
  [][Disconnects /\ shouldReconnect =>
       IF status.state = "running"
         THEN /\ reconnectTimer' # 0
              /\ reconnectAttempts' = IF reconnectTimer # 0 THEN reconnectAttempts
                                                            ELSE reconnectAttempts + 1
         ELSE /\ reconnectTimer' = reconnectTimer
              /\ reconnectAttempts' = reconnectAttempts]_vars


\* the steps of a reconnect attempt that spawns: startProcess(), waitForReady(), connect()
SpawnPath ==
  { << "probe", "spawn" >>, << "spawn", "ready" >>, << "ready", "sleep" >>,
    << "sleep", "ready" >>, << "ready", "connect" >>, << "connect", "handshake" >> }

\* the handshake of reconnect attempt f has been acknowledged and its callback resumes
ReconnectSucceeds(f) ==
  /\ flows[f].kind = "reconnect"
  /\ FlowContinue(f)
  /\ sockets[flows[f].sock].result = "resolved"

\* C26: a reconnect attempt begins with the probe for an existing Gateway. When the
\* probe finds one the attempt goes to connect() and never spawns, and once the
\* handshake is acknowledged the ownership flag is false, the attempt counter is zero
\* and the state is 'running'. When the probe finds none the attempt spawns, waits for
\* ready, connects and handshakes in that order (or fails), and an acknowledged
\* handshake resets the counter with the state 'running'.
C26_ReconnectProbesFirst ==
  /\ [][\A f \in DOMAIN flows :
          (flows[f].kind # "reconnect" /\ flows'[f].kind = "reconnect") =>
            ReconnectTimerFire /\ flows'[f].pc = "probe" /\ ~flows'[f].existing]_vars
  /\ [][\A f \in DOMAIN flows :
          (flows[f].kind = "reconnect" /\ flows'[f] # flows[f] /\ flows'[f] # NoFlow) =>
            IF flows[f].pc = "probe" /\ flows'[f].existing
              THEN flows'[f].pc = "connect" /\ process' = process
            ELSE IF flows[f].existing
              THEN << flows[f].pc, flows'[f].pc >> = << "connect", "handshake" >> /\ flows'[f].child = 0
            ELSE << flows[f].pc, flows'[f].pc >> \in SpawnPath /\ ~flows'[f].existing]_vars
  /\ [][\A f \in DOMAIN flows :
          ReconnectSucceeds(f) =>
            /\ flows'[f] = NoFlow
            /\ reconnectAttempts' = 0
            /\ status'.state = "running"
            /\ flows[f].existing => ~ownsProcess' /\ flows[f].child = 0 /\ process' = process]_vars

\* a reconnect attempt has attached to a Gateway it found
C26_Witness ==
  /\ status.state = "running" /\ reconnectAttempts = 0 /\ status.reconnectAttempts = 1
  /\ ~ownsProcess /\ process = 0 /\ healthCheckInterval
  /\ StatusEvents(observed) = << << "running", 1 >> >>
  /\ \A f \in DOMAIN flows : flows[f] = NoFlow


\* reconnect attempt f ends in the catch block of the timer callback
ReconnectFails(f) ==
  /\ flows[f].kind = "reconnect"
  /\ flows'[f] = NoFlow
  /\ flows[f].pc = "handshake" => sockets[flows[f].sock].result # "resolved"

\* C27: with stop() not requested, a reconnect attempt that fails with the attempt
\* counter below maxAttempts leaves the state 'reconnecting' with a reconnect timer
\* pending, and it does not bring the state to 'error'.
C27_FailedReconnectRetries ==
  [][\A f \in DOMAIN flows :
       (ReconnectFails(f) /\ shouldReconnect
          /\ reconnectAttempts < reconnectConfig.maxAttempts) =>
         /\ status'.state = "reconnecting"
         /\ reconnectTimer' # 0
         /\ status'.error = status.error]_vars


\* the call of slot n has been sent and is not settled
Unsettled(n) == Registered(n) /\ calls[n].settles = 0

\* C28: the id of a call is a key of the pending table exactly while the call is sent
\* and unsettled, and its timeout is armed exactly then. The entry appears with the
\* request, on an id that had neither entry nor timer; each settlement, whether by a
\* response, the timeout or stop(), takes away the entry and the timer in the step
\* that settles.
C28_EntryWhileUnsettled ==
  /\ [](\A n \in DOMAIN calls :
          /\ RpcId(n) \in pendingRequests <=> Unsettled(n)
          /\ n \in rpcTimers <=> Unsettled(n))
  /\ [][\A n \in DOMAIN calls :
          /\ (RpcId(n) \notin pendingRequests /\ RpcId(n) \in pendingRequests') =>
                /\ n \notin rpcTimers /\ ~Unsettled(n)
                /\ calls'[n].outcome = "pending" /\ calls'[n].sock = ws /\ ws # 0
          /\ (Unsettled(n) /\ ~Unsettled(n)') =>
                /\ calls'[n].settles = 1
                /\ calls'[n].outcome \in {"resolved", "remote", "timeout", "stopped"}
                /\ RpcId(n) \notin pendingRequests' /\ n \notin rpcTimers']_vars

\* a call has just been settled by its timeout, its entry and timer gone, while the
\* entry and the timer of another call are still there
C28_Witness ==
  \E n, m \in DOMAIN calls :
    /\ calls[m].outcome = "timeout" /\ ~calls[m].returned
    /\ RpcId(m) \notin pendingRequests /\ m \notin rpcTimers
    /\ Unsettled(n) /\ calls[n].method = "call"
    /\ RpcId(n) \in pendingRequests /\ n \in rpcTimers


\* the close of a socket or the exit or spawn failure of a child
Unexpected ==
  \/ \E s \in DOMAIN sockets : SocketClose(s)
  \/ \E p \in DOMAIN procs : ProcExit(p) \/ ChildError(p)

\* C29: a pending call is settled only by a response frame carrying its id, by its
\* own timeout or by stop(); the close of a socket and the exit of a child leave
\* every pending call pending, with its entry and its timer.
C29_PendingOutlivesDisconnect ==
  /\ [][\A n \in DOMAIN calls :
          (Unsettled(n) /\ ~Unsettled(n)') =>
            \/ /\ calls'[n].outcome \in {"resolved", "remote"}
               /\ \E s \in DOMAIN sockets : \E frame \in limits.frames :
                     Response(s, RpcId(n), frame)
            \/ calls'[n].outcome = "timeout" /\ RpcTimeout(n)
            \/ /\ calls'[n].outcome = "stopped"
               /\ Stop \/ \E m \in DOMAIN calls : StopResume(m)]_vars
  /\ [][Unexpected =>
          \A n \in DOMAIN calls :
            Unsettled(n) =>
              /\ [calls'[n] EXCEPT !.sock = 0] = [calls[n] EXCEPT !.sock = 0]
              /\ RpcId(n) \in pendingRequests' /\ n \in rpcTimers']_vars

\* a caller's request is still pending after the socket it was sent on has closed
\* and the child has exited
C29_Witness ==
  \E n \in DOMAIN calls :
    /\ Unsettled(n) /\ calls[n].method = "call"
    /\ RpcId(n) \in pendingRequests /\ n \in rpcTimers
    /\ calls[n].sock = 0
    /\ process = 0 /\ status.pid # Undefined


\* what the subscribers receive for an event frame
Routed(frame) ==
  IF frame.event = "tick" THEN << >>
  ELSE IF frame.event = "chat"
    THEN << [event |-> "chat:message", args |-> [message |-> frame.payload]] >>
  ELSE IF frame.event = "channel.status"
    THEN << [event |-> "channel:status", args |-> frame.payload] >>
  ELSE << [event |-> "notification",
           args |-> [method |-> frame.event, params |-> frame.payload]] >>

\* C30: an event frame named 'tick' emits nothing, 'chat' emits one chat-message
\* event, 'channel.status' one channel-status event and any other name one generic
\* notification, each carrying the payload; the handler changes neither the pending
\* table nor the status, nor anything else of the manager.
C30_EventsRoutedByName ==
  [][\A s \in DOMAIN sockets : \A frame \in EventFrames :
       EventFrame(s, frame) =>
         /\ observed' = Routed(frame)
         /\ pendingRequests' = pendingRequests
         /\ status' = status
         /\ UNCHANGED managerVars]_vars

\* a frame with a name the switch does not know has been forwarded as one generic
\* notification while a request is pending on the running connection
C30_Witness ==
  /\ observed = << [event |-> "notification",
                    args |-> [method |-> "agent", params |-> "{data}"]] >>
  /\ status.state = "running"
  /\ \E n \in DOMAIN calls : Unsettled(n) /\ RpcId(n) \in pendingRequests


\* C31: the start lock is set exactly while a start() is in flight, and the step in
\* which a start() settles, by success or by failure, leaves the lock released.
C31_LockOnlyWhileStarting ==
  /\ [](startLock <=> StartFlows(World) # {})
  /\ [][\A f \in DOMAIN flows :
          (flows[f].kind = "start" /\ flows'[f] = NoFlow) => ~startLock']_vars

\* a start() is in flight after an earlier start() has failed
C31_Witness ==
  /\ startLock
  /\ status.state = "starting" /\ status.error = "start-failed"
  /\ Cardinality(StartFlows(World)) = 1

\* a stop() is suspended at its shutdown request
StopInFlight == \E n \in DOMAIN calls : calls[n].cont # "none"

\* the last stop() has resolved and no start() has been accepted since
StopHolds == ~shouldReconnect /\ ~StopInFlight

\* C32: from the moment stop() has resolved until a start() is accepted, the state
\* is 'stopped', whatever pipeline was in flight when stop() was called.
C32_StoppedStaysStopped == StopHolds => status.state = "stopped"

\* a child is spawned or a socket is created in this step
SpawnsOrConnects ==
  \/ \E p \in DOMAIN procs :
       procs[p].st \notin {"alive", "failing"} /\ procs'[p].st \in {"alive", "failing"}
  \/ \E s \in DOMAIN sockets :
       sockets[s].rs # "connecting" /\ sockets'[s].rs = "connecting"

\* C33: between the invocation of stop() and the next accepted start() the manager
\* spawns no child and creates no socket.
C33_NothingNewAfterStop ==
  [][~shouldReconnect => ~SpawnsOrConnects]_vars

\* C34: at most one pipeline, of start() or of the reconnect timer, is in flight.
C34_OnePipelineInFlight ==
  Cardinality(StartFlows(World) \cup ReconnectFlows(World)) <= 1

\* socket s is not the manager's socket any more: a newer one, open and acknowledged,
\* is installed
SupersededSocket(s) ==
  /\ ws # 0 /\ ws # s
  /\ sockets[ws].rs = "open" /\ sockets[ws].handshakeComplete

\* child p is not the manager's child any more: a newer one is installed
SupersededChild(p) == process # 0 /\ process # p

\* C35: the close of a superseded socket and the exit of a superseded child change
\* neither the status nor the reconnect schedule, and the exit leaves the ownership
\* flag of the newer child as it is.
C35_SupersededEventsIgnored ==
  /\ [][\A s \in DOMAIN sockets :
          (SocketClose(s) /\ SupersededSocket(s)) =>
            /\ status' = status
            /\ reconnectTimer' = reconnectTimer
            /\ reconnectAttempts' = reconnectAttempts]_vars
  /\ [][\A p \in DOMAIN procs :
          (ProcExit(p) /\ SupersededChild(p)) =>
            /\ status' = status
            /\ reconnectTimer' = reconnectTimer
            /\ ownsProcess' = ownsProcess]_vars

\* C36: as stop() resolves, every child the manager spawned that is still alive has
\* been sent SIGTERM.
C36_StopSignalsEveryChild ==
  [][StopResolves =>
       \A p \in DOMAIN procs : procs'[p].st = "alive" => procs'[p].sigterm]_vars

\* C37: in state 'running' the status carries no error message.
C37_RunningHasNoError == status.state = "running" => status.error = "none"

\* the reconnectAttempts a subscriber reads; a status without the field reads as zero
PublishedAttempts ==
  IF status.reconnectAttempts = Undefined THEN 0 ELSE status.reconnectAttempts

\* C38: the reconnectAttempts of the published status equals the attempt counter.
C38_PublishedAttemptsAgree == PublishedAttempts = reconnectAttempts

\* C39: the request of a caller goes out only on a socket whose handshake is
\* complete, with the state 'running'.
C39_CallsOnlyAfterHandshake ==
  [][\A n \in DOMAIN calls : \A s \in DOMAIN sockets :
       (SendsOn(n, s) /\ calls'[n].method = "call") =>
         sockets[s].handshakeComplete /\ status.state = "running"]_vars

====
